---- MODULE Spec2Model ----
(***************************************************************************)
(* Sprint Connect: the gamification engine (points ledger, streak tracker, *)
(* badge evaluator) of src/backend/gamification.py and the request         *)
(* handlers of src/backend/main.py that drive it.                          *)
(*                                                                         *)
(* Time is the UTC calendar day, a natural number: every date comparison   *)
(* in the code is on .date() values, so the day is all the code observes.  *)
(* Tables are bags of rows (row ids and timestamps other than the day are  *)
(* not observed by any modelled code).                                     *)
(***************************************************************************)
EXTENDS Integers, FiniteSets, Sequences, Bags, TLC

VARIABLES
    now,            \* datetime.utcnow().date(), as a day number
    badges,         \* table badges          (models.Badge)
    ledger,         \* table gamification_points, one slot per user
    txns,           \* table points_transactions
    userBadges,     \* table user_badges
    notifications,  \* table notifications
    checkins,       \* table wellness_checkins
    posts,          \* table community_posts
    circleMembers,  \* table circle_members
    circles,        \* table study_circles, in id order
    pomodoros,      \* table pomodoro_sessions
    events,         \* table events, in id order
    eventAttendees, \* table event_attendees
    last,           \* the last request or call and what it returned
    call            \* the award_points call in progress, commit by commit

vars == <<now, badges, ledger, txns, userBadges, notifications, checkins,
          posts, circleMembers, circles, pomodoros, events,
                   eventAttendees, last, call>>

----------------------------------------------------------------------------
(* Bounds *)

MaxDay == 2
MaxTxns == 5
MaxPosts == 1
MaxStepTxns == 1
MaxStepDay == 1
MaxStreakDay == 9
MaxStreakAwards == 2
MaxCircles == 4
MaxMoods == 14
MaxSwings == 1
MaxOldCheckins == 1
MaxAlerts == 2
MaxReportTxns == 2
MaxRaceTxns == 3
MaxWeekDay == 6
MaxPomodoros == 2
MaxPomodoroTxns == 3
MaxEvents == 2
MaxMatchMembers == 10

Users == {"u1", "u2"}

----------------------------------------------------------------------------
(* Program constants *)

POINTS_CONFIG ==
    [ daily_checkin         |-> 10,
      wellness_streak_bonus |-> 5,
      create_post           |-> 15,
      comment               |-> 5,
      like_post             |-> 1,
      join_circle           |-> 20,
      event_rsvp            |-> 10,
      event_attend          |-> 15,
      pomodoro_complete     |-> 5,
      study_session_hour    |-> 10,
      help_peer             |-> 25 ]

\* A criteria mapping is a set of <<key, threshold>> pairs; has_criteria is
\* FALSE for a NULL criteria column.
Badge(n, c) == [name |-> n, has_criteria |-> TRUE, criteria |-> c]

BADGES ==
    { Badge("First Steps",       {<<"checkins", 1>>}),
      Badge("Wellness Warrior",  {<<"checkin_streak", 7>>}),
      Badge("Community Builder", {<<"posts", 5>>}),
      Badge("Study Buddy",       {<<"circles", 1>>}),
      Badge("Social Butterfly",  {<<"circles", 3>>}),
      Badge("Time Master",       {<<"pomodoros", 10>>}),
      Badge("Marathon Studier",  {<<"study_hours", 20>>}),
      Badge("Helping Hand",      {<<"peer_helps", 10>>}),
      Badge("Sprint Champion",   {<<"level", 10>>}) }

\* Rows the badges table admits besides the seeded catalog: criteria is a
\* nullable JSON column, so it can hold {} or NULL.
EmptyCriteriaBadge == Badge("Empty Criteria", {})
NullCriteriaBadge ==
    [name |-> "Null Criteria", has_criteria |-> FALSE, criteria |-> {}]

\* GamificationPoints column defaults; last_activity defaults to utcnow.
NoDate == -1
NoLedger ==
    [exists |-> FALSE, points |-> 0, level |-> 0, total_points_earned |-> 0,
     streak_days |-> 0, last_activity |-> NoDate]
GamificationPoints(today) ==
    [exists |-> TRUE, points |-> 0, level |-> 1, total_points_earned |-> 0,
     streak_days |-> 0, last_activity |-> today]

----------------------------------------------------------------------------
(* Queries over tables *)

RECURSIVE SumOver(_, _)
SumOver(f, S) ==
    IF S = {} THEN 0
    ELSE LET x == CHOOSE y \in S : TRUE
         IN  f[x] + SumOver(f, S \ {x})

\* .count() of a filtered query
Count(table, rows) == SumOver(table, rows)

RowsOf(table, u) == {r \in DOMAIN table : r.user_id = u}

\* sum of PointsTransaction.points over the rows of user u
TxnSum(table, u) ==
    LET rows == RowsOf(table, u)
        pts == [r \in rows |-> r.points * table[r]]
    IN  SumOver(pts, rows)

Insert(table, row) == table (+) SetToBag({row})

\* The persistent store as one value, so that the functions of
\* gamification.py compose as they do in the code.
DB ==
    [ledger |-> ledger, txns |-> txns, userBadges |-> userBadges,
     notifications |-> notifications, checkins |-> checkins, posts |-> posts,
     circleMembers |-> circleMembers, circles |-> circles,
     pomodoros |-> pomodoros, events |-> events,
     eventAttendees |-> eventAttendees,
     badges |-> badges]

----------------------------------------------------------------------------
(* gamification.py *)

get_or_create_user_points(db, u, today) ==
    IF db.ledger[u].exists THEN db
    ELSE [db EXCEPT !.ledger[u] = GamificationPoints(today)]

HasKey(criteria, key) == \E p \in criteria : p[1] = key
Threshold(criteria, key) == (CHOOSE p \in criteria : p[1] = key)[2]

\* No handler of main.py inserts a StudySession row, so the sum of
\* duration_minutes over a user's study sessions is always the empty sum.
StudyMinutes(db, u) == 0

\* No handler of main.py inserts a PeerSupport row (models.py 178-190) and
\* award_points is never called with "help_peer" by a handler, so no peer
\* help is ever recorded for any user.
PeerHelps(db, u) == 0

CompletedPomodoros(db, u) ==
    Cardinality({i \in DOMAIN db.pomodoros :
                    db.pomodoros[i].user_id = u /\ db.pomodoros[i].completed})

\* Lines 255-310 of check_badge_criteria: every key the function knows must
\* pass.  A key it does not know ("peer_helps") is never looked at.  The
\* ledger is read through get_or_create_user_points, as in the code.
criteria_pass(db, u, c, today) ==
    LET user_points == get_or_create_user_points(db, u, today).ledger[u]
    IN  /\ HasKey(c, "checkins") =>
              Count(db.checkins, RowsOf(db.checkins, u)) >= Threshold(c, "checkins")
        /\ HasKey(c, "checkin_streak") =>
              user_points.streak_days >= Threshold(c, "checkin_streak")
        /\ HasKey(c, "posts") =>
              Count(db.posts, {r \in DOMAIN db.posts : r.author_id = u})
                  >= Threshold(c, "posts")
        /\ HasKey(c, "circles") =>
              Count(db.circleMembers,
                    {r \in DOMAIN db.circleMembers : r.student_id = u})
                  >= Threshold(c, "circles")
        /\ HasKey(c, "pomodoros") =>
              CompletedPomodoros(db, u) >= Threshold(c, "pomodoros")
        /\ HasKey(c, "study_hours") =>
              StudyMinutes(db, u) >= 60 * Threshold(c, "study_hours")
        /\ HasKey(c, "level") =>
              user_points.level >= Threshold(c, "level")

\* The mutation drops the fail-closed test of an empty or NULL mapping.
check_badge_criteria_open(db, u, badge, today) ==
    criteria_pass(db, u, badge.criteria, today)

\* check_badge_criteria: "if not criteria: return False", then the keys.
check_badge_criteria(db, u, badge, today) ==
    IF ~badge.has_criteria \/ badge.criteria = {} THEN FALSE
    ELSE criteria_pass(db, u, badge.criteria, today)

UserBadge(u, b) == [user_id |-> u, badge |-> b.name]
BadgeNotification(u, b) ==
    [user_id |-> u, notification_type |-> "achievement", title |-> b.name]

RECURSIVE InsertAll(_, _)
InsertAll(table, rows) ==
    IF rows = {} THEN table
    ELSE LET r == CHOOSE x \in rows : TRUE
         IN  InsertAll(Insert(table, r), rows \ {r})

\* The mutation forgets to skip the badges the user already holds.
check_and_award_badges_again(db, u, today) ==
    IF u \notin Users THEN db
    ELSE
    LET newly_awarded ==
            {b \in db.badges : check_badge_criteria(db, u, b, today)}
    IN  [db EXCEPT
            !.userBadges = InsertAll(@, {UserBadge(u, b) : b \in newly_awarded}),
            !.notifications =
                InsertAll(@, {BadgeNotification(u, b) : b \in newly_awarded})]

\* The mutation rewrites the user's badge rows to the badges whose criteria
\* pass now, instead of only adding rows.
check_and_award_badges_sync(db, u, today) ==
    IF u \notin Users THEN db
    ELSE
    LET others == {r \in DOMAIN db.userBadges : r.user_id # u}
        passing == {b \in db.badges : check_badge_criteria(db, u, b, today)}
    IN  [db EXCEPT
            !.userBadges =
                [r \in others \cup {UserBadge(u, b) : b \in passing} |->
                    IF r \in others THEN db.userBadges[r] ELSE 1]]

\* check_and_award_badges: current_badge_ids is read once before the loop and
\* badge names are unique, so the loop grants exactly the badges not held
\* before the call whose criteria pass.
check_and_award_badges(db, u, today) ==
    IF u \notin Users THEN db
    ELSE
    LET current_badge_ids ==
            {r.badge : r \in {x \in DOMAIN db.userBadges : x.user_id = u}}
        newly_awarded ==
            {b \in db.badges : /\ b.name \notin current_badge_ids
                               /\ check_badge_criteria(db, u, b, today)}
    IN  [db EXCEPT
            !.userBadges = InsertAll(@, {UserBadge(u, b) : b \in newly_awarded}),
            !.notifications =
                InsertAll(@, {BadgeNotification(u, b) : b \in newly_awarded})]

PointsTransaction(u, pts, a) ==
    [user_id |-> u, points |-> pts, action_type |-> a]

\* The mutation deduplicates: an award whose transaction row is already
\* recorded is not recorded again.
record_award_once(db, u, a, today) ==
    LET d == get_or_create_user_points(db, u, today)
        points_value == POINTS_CONFIG[a]
        total == d.ledger[u].total_points_earned + points_value
    IN  IF BagIn(PointsTransaction(u, points_value, a), d.txns) THEN d
        ELSE [d EXCEPT
                !.txns = Insert(@, PointsTransaction(u, points_value, a)),
                !.ledger[u] = [@ EXCEPT !.points = @ + points_value,
                                        !.total_points_earned = total,
                                        !.last_activity = today,
                                        !.level = (total \div 100) + 1]]

\* Lines 128-149 of award_points: the transaction row and the ledger update,
\* committed together.
record_award(db, u, a, today) ==
    LET d == get_or_create_user_points(db, u, today)
        points_value == POINTS_CONFIG[a]
        total == d.ledger[u].total_points_earned + points_value
    IN  [d EXCEPT
            !.txns = Insert(@, PointsTransaction(u, points_value, a)),
            !.ledger[u] = [@ EXCEPT !.points = @ + points_value,
                                    !.total_points_earned = total,
                                    !.last_activity = today,
                                    !.level = (total \div 100) + 1]]

flush_award_reloaded(db, u, a, today, loaded) ==
    LET points_value == POINTS_CONFIG[a]
        total == db.ledger[u].total_points_earned + points_value
    IN  [db EXCEPT
            !.txns = Insert(@, PointsTransaction(u, points_value, a)),
            !.ledger[u] = [@ EXCEPT !.points = @ + points_value,
                                    !.total_points_earned = total,
                                    !.last_activity = today,
                                    !.level = (total \div 100) + 1]]

\* Lines 131-148 of award_points in a session that loaded the ledger row at
\* line 129 as `loaded`: the += of lines 141-142 are computed in Python from
\* the loaded values, and the commit writes the attributes that changed as
\* absolute values over whatever the row holds by then.
flush_award(db, u, a, today, loaded) ==
    LET points_value == POINTS_CONFIG[a]
        total == loaded.total_points_earned + points_value
        level == (total \div 100) + 1
    IN  [db EXCEPT
            !.txns = Insert(@, PointsTransaction(u, points_value, a)),
            !.ledger[u] = [@ EXCEPT
                !.points = loaded.points + points_value,
                !.total_points_earned = total,
                !.last_activity = today,
                !.level = IF level # loaded.level THEN level ELSE @]]

\* The mutation creates the ledger record before it looks at the action type.
award_points_eager(db, u, a, today) ==
    IF a \notin DOMAIN POINTS_CONFIG
    THEN get_or_create_user_points(db, u, today)
    ELSE check_and_award_badges(record_award(db, u, a, today), u, today)

award_points(db, u, a, today) ==
    IF a \notin DOMAIN POINTS_CONFIG THEN db
    ELSE check_and_award_badges(record_award(db, u, a, today), u, today)

\* what award_points returns: None (line 124) or the ledger record (line 154)
award_points_ret(a) ==
    IF a \notin DOMAIN POINTS_CONFIG THEN "None" ELSE "user_points"

\* The mutation adds the streak bonus to points but not to
\* total_points_earned.
update_streak_balance_only(db, u, today) ==
    LET d == get_or_create_user_points(db, u, today)
        up == d.ledger[u]
        gap == today - up.last_activity
        bonus_points == POINTS_CONFIG["wellness_streak_bonus"] * (up.streak_days + 1)
    IN  IF up.last_activity # NoDate /\ gap = 1
        THEN [d EXCEPT
                !.txns = Insert(@, PointsTransaction(u, bonus_points,
                                                     "wellness_streak_bonus")),
                !.ledger[u] = [@ EXCEPT !.streak_days = @ + 1,
                                        !.points = @ + bonus_points,
                                        !.last_activity = today]]
        ELSE [d EXCEPT !.ledger[u].last_activity = today]

update_streak_flat_bonus(db, u, today) ==
    LET d == get_or_create_user_points(db, u, today)
        up == d.ledger[u]
        gap == today - up.last_activity
        bonus_points == POINTS_CONFIG["wellness_streak_bonus"]
    IN  IF up.last_activity # NoDate
        THEN IF gap = 1
             THEN [d EXCEPT
                     !.txns = Insert(@, PointsTransaction(u, bonus_points,
                                                          "wellness_streak_bonus")),
                     !.ledger[u] = [@ EXCEPT
                                       !.streak_days = @ + 1,
                                       !.points = @ + bonus_points,
                                       !.total_points_earned = @ + bonus_points,
                                       !.last_activity = today]]
             ELSE IF gap > 1
             THEN [d EXCEPT !.ledger[u] = [@ EXCEPT !.streak_days = 1,
                                                    !.last_activity = today]]
             ELSE [d EXCEPT !.ledger[u].last_activity = today]
        ELSE [d EXCEPT !.ledger[u] = [@ EXCEPT !.streak_days = 1,
                                               !.last_activity = today]]

update_streak_same_day_counts(db, u, today) ==
    LET d == get_or_create_user_points(db, u, today)
        up == d.ledger[u]
        gap == today - up.last_activity
        bonus_points == POINTS_CONFIG["wellness_streak_bonus"] * (up.streak_days + 1)
    IN  IF up.last_activity # NoDate
        THEN IF gap \in {0, 1}
             THEN [d EXCEPT
                     !.txns = Insert(@, PointsTransaction(u, bonus_points,
                                                          "wellness_streak_bonus")),
                     !.ledger[u] = [@ EXCEPT
                                       !.streak_days = @ + 1,
                                       !.points = @ + bonus_points,
                                       !.total_points_earned = @ + bonus_points,
                                       !.last_activity = today]]
             ELSE IF gap > 1
             THEN [d EXCEPT !.ledger[u] = [@ EXCEPT !.streak_days = 1,
                                                    !.last_activity = today]]
             ELSE [d EXCEPT !.ledger[u].last_activity = today]
        ELSE [d EXCEPT !.ledger[u] = [@ EXCEPT !.streak_days = 1,
                                               !.last_activity = today]]

update_streak_total_only(db, u, today) ==
    LET d == get_or_create_user_points(db, u, today)
        up == d.ledger[u]
        gap == today - up.last_activity
        bonus_points == POINTS_CONFIG["wellness_streak_bonus"] * (up.streak_days + 1)
    IN  IF up.last_activity # NoDate
        THEN IF gap = 1
             THEN [d EXCEPT
                     !.txns = Insert(@, PointsTransaction(u, bonus_points,
                                                          "wellness_streak_bonus")),
                     !.ledger[u] = [@ EXCEPT
                                       !.streak_days = @ + 1,
                                       !.total_points_earned = @ + bonus_points,
                                       !.last_activity = today]]
             ELSE IF gap > 1
             THEN [d EXCEPT !.ledger[u] = [@ EXCEPT !.streak_days = 1,
                                                    !.last_activity = today]]
             ELSE [d EXCEPT !.ledger[u].last_activity = today]
        ELSE [d EXCEPT !.ledger[u] = [@ EXCEPT !.streak_days = 1,
                                               !.last_activity = today]]

update_streak(db, u, today) ==
    LET d == get_or_create_user_points(db, u, today)
        up == d.ledger[u]
        gap == today - up.last_activity
        bonus_points == POINTS_CONFIG["wellness_streak_bonus"] * (up.streak_days + 1)
    IN  IF up.last_activity # NoDate
        THEN IF gap = 1
             THEN [d EXCEPT
                     !.txns = Insert(@, PointsTransaction(u, bonus_points,
                                                          "wellness_streak_bonus")),
                     !.ledger[u] = [@ EXCEPT
                                       !.streak_days = @ + 1,
                                       !.points = @ + bonus_points,
                                       !.total_points_earned = @ + bonus_points,
                                       !.last_activity = today]]
             ELSE IF gap > 1
             THEN [d EXCEPT !.ledger[u] = [@ EXCEPT !.streak_days = 1,
                                                    !.last_activity = today]]
             ELSE [d EXCEPT !.ledger[u].last_activity = today]
        ELSE [d EXCEPT !.ledger[u] = [@ EXCEPT !.streak_days = 1,
                                               !.last_activity = today]]

\* the ledger rows the query of get_leaderboard keeps: all of them, or
\* those with last_activity within the last 7 or 30 days
on_leaderboard(db, timeframe, today) ==
    {u \in DOMAIN db.ledger :
        /\ db.ledger[u].exists
        /\ timeframe = "week" => db.ledger[u].last_activity >= today - 7
        /\ timeframe = "month" => db.ledger[u].last_activity >= today - 30}

\* the results get_leaderboard can return: the first `limit` of the kept
\* rows by points descending, rows of equal points in either order
get_leaderboard(db, limit, timeframe, today) ==
    LET kept == on_leaderboard(db, timeframe, today)
        n == IF Cardinality(kept) < limit THEN Cardinality(kept) ELSE limit
    IN  {lb \in [1..n -> kept] :
            /\ \A i, j \in 1..n : i < j =>
                  /\ lb[i] # lb[j]
                  /\ db.ledger[lb[i]].points >= db.ledger[lb[j]].points
            /\ \A u \in kept : \A i \in 1..n :
                  (\A j \in 1..n : lb[j] # u) =>
                      db.ledger[lb[i]].points >= db.ledger[u].points}

\* the store after get_user_stats: its first statement is
\* get_or_create_user_points
get_user_stats(db, u, today) == get_or_create_user_points(db, u, today)

\* the dictionary get_user_stats returns
get_user_stats_ret(db, u, today) ==
    LET d == get_user_stats(db, u, today)
        user_points == d.ledger[u]
        higher_ranked ==
            Cardinality({v \in DOMAIN d.ledger :
                            /\ d.ledger[v].exists
                            /\ d.ledger[v].points > user_points.points})
    IN  [points |-> user_points.points,
         level |-> user_points.level,
         total_points_earned |-> user_points.total_points_earned,
         streak_days |-> user_points.streak_days,
         badges_count |-> Count(d.userBadges, RowsOf(d.userBadges, u)),
         rank |-> higher_ranked + 1,
         total_users |-> Cardinality({v \in DOMAIN d.ledger :
                                         d.ledger[v].exists})]

----------------------------------------------------------------------------
(* main.py: request handlers *)

\* models.WellnessCheckIn: created_at as a day, and the mood score
WellnessCheckIn(u, today, score) ==
    [user_id |-> u, day |-> today, mood_score |-> score]
CommunityPost(u) == [author_id |-> u]

CheckedAfterToday(db, u, today) ==
    \E r \in RowsOf(db.checkins, u) : r.day > today

\* the same-day row create_checkin looks for: created_at >= today 00:00
CheckedInToday(db, u, today) ==
    \E r \in RowsOf(db.checkins, u) : r.day >= today

\* create_checkin past its duplicate check: the check-in row, then
\* award_points, then update_streak
create_checkin(db, u, today, score) ==
    LET d1 == [db EXCEPT
                  !.checkins = Insert(@, WellnessCheckIn(u, today, score))]
        d2 == award_points(d1, u, "daily_checkin", today)
    IN  update_streak(d2, u, today)

create_post(db, u, today) ==
    LET d1 == [db EXCEPT !.posts = Insert(@, CommunityPost(u))]
    IN  award_points(d1, u, "create_post", today)

\* table courses: one course seeded with circles, one seeded without
\* (init_db seeds circles for the first three courses of five)
Courses == {"c1", "c2"}

\* models.StudyCircle: status defaults to "active", max_members to 5
StudyCircle(course) ==
    [course_id |-> course, status |-> "active", max_members |-> 5]

\* models.CircleMember: role defaults to "member"
CircleMember(circle, u, role) ==
    [circle_id |-> circle, student_id |-> u, role |-> role]

\* the active circles of the course, as ids
ActiveCircles(db, course) ==
    {i \in DOMAIN db.circles : /\ db.circles[i].course_id = course
                               /\ db.circles[i].status = "active"}

member_count(db, circle) ==
    Count(db.circleMembers,
          {r \in DOMAIN db.circleMembers : r.circle_id = circle})

has_room_inclusive(db, circle) ==
    member_count(db, circle) <= db.circles[circle].max_members

\* if member_count < circle.max_members
has_room(db, circle) ==
    member_count(db, circle) < db.circles[circle].max_members

existing_ignored(db, circle, u) == FALSE

\* the caller already has a row in this circle
existing(db, circle, u) ==
    \E r \in DOMAIN db.circleMembers :
        r.circle_id = circle /\ r.student_id = u

\* the circles at which the loop of match_to_circle would stop
Joinable(db, u, course) ==
    {i \in ActiveCircles(db, course) :
        has_room(db, i) /\ ~existing(db, i, u)}

LastJoinable(db, u, course) ==
    CHOOSE i \in Joinable(db, u, course) :
        \A j \in Joinable(db, u, course) : j <= i

\* the loop scans in the order of the query, which is the id order of the
\* table, and returns at the first circle that passes both tests
FirstJoinable(db, u, course) ==
    CHOOSE i \in Joinable(db, u, course) :
        \A j \in Joinable(db, u, course) : i <= j

new_circle_rewarded(db, u, course, today) ==
    award_points(
        [db EXCEPT
            !.circles = Append(@, StudyCircle(course)),
            !.circleMembers =
                Insert(@, CircleMember(Len(db.circles) + 1, u, "leader"))],
        u, "join_circle", today)

\* the tail of match_to_circle: a new circle with the caller as leader
new_circle(db, u, course, today) ==
    [db EXCEPT
        !.circles = Append(@, StudyCircle(course)),
        !.circleMembers =
            Insert(@, CircleMember(Len(db.circles) + 1, u, "leader"))]

match_to_circle(db, u, course, today) ==
    IF Joinable(db, u, course) # {}
    THEN award_points(
            [db EXCEPT !.circleMembers =
                Insert(@, CircleMember(FirstJoinable(db, u, course),
                                       u, "member"))],
            u, "join_circle", today)
    ELSE IF course \notin Courses
    THEN db
    ELSE new_circle(db, u, course, today)

\* the circle the response carries, or the error
match_to_circle_ret(db, u, course) ==
    IF Joinable(db, u, course) # {}
    THEN FirstJoinable(db, u, course)
    ELSE IF course \notin Courses
    THEN 404
    ELSE Len(db.circles) + 1

\* checkins within the query of analyze_stress_patterns: the user's rows
\* with created_at >= utcnow() - 30 days.  A row dated exactly 30 days back
\* is inside when its time of day is not before the current one.
recent_checkins(db, u, today, edge) ==
    {r \in RowsOf(db.checkins, u) :
        \/ r.day > today - 30
        \/ r.day = today - 30 /\ edge}

\* [c.mood_score for c in checkins], the rows ordered by created_at
mood_scores(rows) ==
    [i \in 1..Cardinality(rows) |->
        (CHOOSE r \in rows :
            Cardinality({q \in rows : q.day <= r.day}) = i).mood_score]

RECURSIVE SeqSum(_)
SeqSum(seq) == IF seq = << >> THEN 0 ELSE Head(seq) + SeqSum(Tail(seq))

\* seq[-k:]
LastK(seq, k) ==
    SubSeq(seq, IF Len(seq) > k THEN Len(seq) - k + 1 ELSE 1, Len(seq))

\* mood_scores[-14:-7]
PriorSeven(seq) ==
    SubSeq(seq, IF Len(seq) > 14 THEN Len(seq) - 13 ELSE 1, Len(seq) - 7)

insufficient_below_six(scores) == Len(scores) < 6

\* if len(checkins) < 7
insufficient(scores) == Len(scores) < 7

\* older_avg as a fraction: sum(mood_scores[-14:-7]) / 7 when there are 14
\* scores or more, else avg_mood = sum(mood_scores) / len(mood_scores)
older_sum(scores) ==
    IF Len(scores) >= 14 THEN SeqSum(PriorSeven(scores)) ELSE SeqSum(scores)
older_len(scores) == IF Len(scores) >= 14 THEN 7 ELSE Len(scores)

detect_trend_without_margin(scores) ==
    LET recent == SeqSum(LastK(scores, 7))
    IN  IF recent * older_len(scores) < 7 * older_sum(scores)
        THEN "declining"
        ELSE IF recent * older_len(scores) > 7 * older_sum(scores)
        THEN "improving"
        ELSE "stable"

\* recent_avg = sum(mood_scores[-7:]) / 7 against older_avg -+ 0.5.  Both
\* sides are multiplied by 14 * older_len; whenever the two sides are equal
\* the averages are a whole number and a whole number and a half, which the
\* floating-point division of the code yields exactly.
detect_trend(scores) ==
    LET recent == SeqSum(LastK(scores, 7))
    IN  IF 2 * older_len(scores) * recent
              < 14 * older_sum(scores) - 7 * older_len(scores)
        THEN "declining"
        ELSE IF 2 * older_len(scores) * recent
                  > 14 * older_sum(scores) + 7 * older_len(scores)
        THEN "improving"
        ELSE "stable"

\* sum(1 for score in mood_scores[-7:] if score <= 2)
low_mood_count(scores) ==
    LET recent == LastK(scores, 7)
    IN  Cardinality({i \in DOMAIN recent : recent[i] <= 2})

notifies_on_any_alert(trend, low) ==
    (trend = "declining" /\ low >= 3) \/ low >= 4

\* the branch that adds the notification row
notifies(trend, low) == trend = "declining" /\ low >= 3

\* schemas.StressAnalysis, the fields the claims speak of
StressAnalysis(trend, alert, message) ==
    [trend |-> trend, alert |-> alert, alert_message |-> message]

AlertNotification(u) ==
    [user_id |-> u, notification_type |-> "alert",
     title |-> "Wellness Check-In Alert"]

\* the response of analyze_stress_patterns
stress_analysis(scores) ==
    IF insufficient(scores)
    THEN StressAnalysis("insufficient_data", FALSE, "need 7 check-ins")
    ELSE LET trend == detect_trend(scores)
             low == low_mood_count(scores)
         IN  IF trend = "declining" /\ low >= 3
             THEN StressAnalysis(trend, TRUE, "mood declining")
             ELSE IF low >= 4
             THEN StressAnalysis(trend, TRUE, "several low mood days")
             ELSE StressAnalysis(trend, FALSE, "")

\* the store after analyze_stress_patterns, given the scores of the rows
\* its query returned
analyze_stress_patterns(db, u, scores) ==
    IF /\ ~insufficient(scores)
       /\ notifies(detect_trend(scores), low_mood_count(scores))
    THEN [db EXCEPT !.notifications = Insert(@, AlertNotification(u))]
    ELSE db

\* models.PomodoroSession: completed defaults to False; the id of a row is
\* its position in the table
PomodoroSession(u) == [user_id |-> u, completed |-> FALSE]

\* POST /pomodoro/start
start_pomodoro_session(db, u) ==
    [db EXCEPT !.pomodoros = Append(@, PomodoroSession(u))]

\* the query of complete_pomodoro_session: the row of that id, of the caller
own_session(db, u, session_id) ==
    /\ session_id \in DOMAIN db.pomodoros
    /\ db.pomodoros[session_id].user_id = u

\* complete_pomodoro_session: 404 without a row; otherwise the row is marked
\* completed and award_points is called, whose first commit writes the row
complete_pomodoro_session(db, u, session_id, today) ==
    IF ~own_session(db, u, session_id) THEN db
    ELSE award_points([db EXCEPT !.pomodoros[session_id].completed = TRUE],
                      u, "pomodoro_complete", today)

\* models.Event: max_attendees is a nullable column (has_max is FALSE for
\* NULL), attendee_count defaults to 0; the id of a row is its position
Event(has_max, max_attendees) ==
    [has_max |-> has_max, max_attendees |-> max_attendees,
     attendee_count |-> 0]

EventAttendee(event_id, u) == [event_id |-> event_id, user_id |-> u]

\* POST /events
create_event(db, has_max, max_attendees) ==
    [db EXCEPT !.events = Append(@, Event(has_max, max_attendees))]

\* the outcome of the checks of rsvp_event, in their order
rsvp_event_ret(db, u, event_id) ==
    IF event_id \notin DOMAIN db.events
    THEN "404 Event not found"
    ELSE IF \E r \in DOMAIN db.eventAttendees :
                r.event_id = event_id /\ r.user_id = u
    THEN "400 Already RSVP'd"
    \* `if event.max_attendees and ...`: None and 0 are both falsy
    ELSE IF /\ db.events[event_id].has_max
            /\ db.events[event_id].max_attendees # 0
            /\ db.events[event_id].attendee_count
                  >= db.events[event_id].max_attendees
    THEN "400 Event is full"
    ELSE "200"

rsvp_event(db, u, event_id) ==
    IF rsvp_event_ret(db, u, event_id) # "200" THEN db
    ELSE [db EXCEPT
            !.eventAttendees = Insert(@, EventAttendee(event_id, u)),
            !.events[event_id].attendee_count = @ + 1]

----------------------------------------------------------------------------
(* State machine *)

Call(op, u, arg, ret) == [op |-> op, user |-> u, arg |-> arg, ret |-> ret]

\* no award_points call is in progress
Idle == [pc |-> "idle"]

\* The state after init_db: the badge catalog seeded, nothing earned yet.
\* The badges table may in addition hold rows with an empty or NULL criteria
\* column.
Init ==
    /\ now = 0
    /\ badges \in {BADGES, BADGES \cup {EmptyCriteriaBadge, NullCriteriaBadge}}
    /\ ledger = [u \in Users |-> NoLedger]
    /\ txns = EmptyBag
    /\ userBadges = EmptyBag
    /\ notifications = EmptyBag
    /\ checkins = EmptyBag
    /\ posts = EmptyBag
    /\ circleMembers = EmptyBag
    /\ circles = << >>
    /\ pomodoros = << >>
    /\ events = << >>
    /\ eventAttendees = EmptyBag
    /\ last = Call("init", "", "", "")
    /\ call = Idle

\* the store after a call that computed d
Commit(d) ==
    /\ ledger' = d.ledger
    /\ txns' = d.txns
    /\ userBadges' = d.userBadges
    /\ notifications' = d.notifications
    /\ checkins' = d.checkins
    /\ posts' = d.posts
    /\ circleMembers' = d.circleMembers
    /\ circles' = d.circles
    /\ pomodoros' = d.pomodoros
    /\ events' = d.events
    /\ eventAttendees' = d.eventAttendees
    /\ badges' = d.badges

\* midnight UTC passes
Tick ==
    /\ now < MaxDay
    /\ now' = now + 1
    /\ last' = Call("tick", "", "", "")
    /\ UNCHANGED <<badges, ledger, txns, userBadges, notifications, checkins,
                   posts, circleMembers, circles, pomodoros, events,
                   eventAttendees, call>>

\* Action types passed to award_points when it is called directly: two
\* keys of POINTS_CONFIG and one string that is not a key.
AwardInputs == {"help_peer", "join_circle", "not_an_action"}

AwardPoints(u, a) ==
    /\ BagCardinality(txns) < MaxTxns
    /\ Commit(award_points(DB, u, a, now))
    /\ last' = Call("award_points", u, a, award_points_ret(a))
    /\ UNCHANGED <<now, call>>

UpdateStreak(u) ==
    /\ BagCardinality(txns) < MaxTxns
    /\ Commit(update_streak(DB, u, now))
    /\ last' = Call("update_streak", u, "", "user_points")
    /\ UNCHANGED <<now, call>>

\* The mood score a check-in carries where no request reads the scores:
\* the middle of the 1-5 scale.
CheckinMoods == {3}

\* POST /checkin
CreateCheckin(u, score) ==
    /\ IF CheckedInToday(DB, u, now)
       THEN /\ last' = Call("create_checkin", u, "", "400 Already checked in today")
            /\ UNCHANGED <<badges, ledger, txns, userBadges, notifications,
                           checkins, posts, circleMembers, circles, pomodoros, events,
                   eventAttendees>>
       ELSE /\ Commit(create_checkin(DB, u, now, score))
            /\ last' = Call("create_checkin", u, "", "200")
    /\ UNCHANGED <<now, call>>

\* POST /posts
CreatePost(u) ==
    /\ Count(posts, {r \in DOMAIN posts : r.author_id = u}) < MaxPosts
    /\ Commit(create_post(DB, u, now))
    /\ last' = Call("create_post", u, "", "200")
    /\ UNCHANGED <<now, call>>

\* The application: requests are handled one at a time, as the days pass.
Next ==
    \/ Tick
    \/ \E u \in Users, score \in CheckinMoods : CreateCheckin(u, score)
    \/ \E u \in Users : CreatePost(u)

Spec == Init /\ [][Next]_vars

\* gamification.py used as a library: any sequence of award_points and
\* update_streak calls, one at a time, as the days pass.
LedgerNext ==
    \/ Tick
    \/ \E u \in Users, a \in AwardInputs : AwardPoints(u, a)
    \/ \E u \in Users : UpdateStreak(u)

LedgerSpec == Init /\ [][LedgerNext]_vars

\* One user's streak over many days: update_streak and award_points called
\* directly for that user, as in LedgerSpec, over enough days for a streak
\* of seven to build up and break.
StreakUser == "u1"

StreakTick ==
    /\ now < MaxStreakDay
    /\ now' = now + 1
    /\ last' = Call("tick", "", "", "")
    /\ UNCHANGED <<badges, ledger, txns, userBadges, notifications, checkins,
                   posts, circleMembers, circles, pomodoros, events,
                   eventAttendees, call>>

StreakTouch ==
    /\ Commit(update_streak(DB, StreakUser, now))
    /\ last' = Call("update_streak", StreakUser, "", "user_points")
    /\ UNCHANGED <<now, call>>

StreakAward ==
    /\ CopiesIn(PointsTransaction(StreakUser, 20, "join_circle"), txns)
           < MaxStreakAwards
    /\ Commit(award_points(DB, StreakUser, "join_circle", now))
    /\ last' = Call("award_points", StreakUser, "join_circle", "user_points")
    /\ UNCHANGED <<now, call>>

StreakNext == StreakTick \/ StreakTouch \/ StreakAward

StreakSpec == Init /\ [][StreakNext]_vars

----------------------------------------------------------------------------
(* Study circles, through POST /study-circles/match *)

\* the demo students of init_db
DemoStudents == <<"s1", "s2", "s3", "s4">>

\* a circle as init_db seeds it: n of the demo students, the first as leader
SeedMembers(circle, n) ==
    {CircleMember(circle, DemoStudents[j], IF j = 1 THEN "leader" ELSE "member")
        : j \in 1..n}

\* The state after init_db, for the course seeded with circles: two active
\* circles, each with 3 or 4 demo students.
CircleInit ==
    /\ now = 0
    /\ badges \in {BADGES, BADGES \cup {EmptyCriteriaBadge, NullCriteriaBadge}}
    /\ ledger = [u \in Users |-> NoLedger]
    /\ txns = EmptyBag
    /\ userBadges = EmptyBag
    /\ notifications = EmptyBag
    /\ checkins = EmptyBag
    /\ posts = EmptyBag
    /\ circles = <<StudyCircle("c1"), StudyCircle("c1")>>
    /\ \E n1 \in {3, 4}, n2 \in {3, 4} :
          circleMembers = SetToBag(SeedMembers(1, n1) \cup SeedMembers(2, n2))
    /\ pomodoros = << >>
    /\ events = << >>
    /\ eventAttendees = EmptyBag
    /\ last = Call("init", "", "", "")
    /\ call = Idle

\* course ids a request can carry: the two courses and an id of no course
CourseInputs == Courses \cup {"c9"}

MatchToCircle(u, course) ==
    /\ \/ Joinable(DB, u, course) # {}
       \/ course \notin Courses
       \/ Len(circles) < MaxCircles
    /\ Commit(match_to_circle(DB, u, course, now))
    /\ last' = Call("match_to_circle", u, course,
                    match_to_circle_ret(DB, u, course))
    /\ UNCHANGED <<now, call>>

CircleNext == \E u \in Users, course \in CourseInputs : MatchToCircle(u, course)

CircleSpec == CircleInit /\ [][CircleNext]_vars

----------------------------------------------------------------------------
(* Stress analysis, through GET /wellness/stress-analysis: one student who  *)
(* checks in every day with a low or a high mood and asks for the analysis. *)

StressUser == "u1"

\* mood scores of a check-in request: low (<= 2), middle and high
MoodInputs == {2, 3, 5}

\* how many times the score changes from one check-in to the next
MoodSwings(scores) ==
    Cardinality({i \in 1..(Len(scores) - 1) : scores[i] # scores[i + 1]})

\* POST /checkin with one of the mood scores, once a day
StressCheckin(u, score) ==
    /\ ~CheckedInToday(DB, u, now)
    /\ Count(checkins, RowsOf(checkins, u)) < MaxMoods
    /\ MoodSwings(Append(mood_scores(RowsOf(checkins, u)), score)) <= MaxSwings
    /\ CreateCheckin(u, score)

\* midnight passes once the student has checked in
StressTick ==
    /\ CheckedInToday(DB, StressUser, now)
    /\ Count(checkins, RowsOf(checkins, StressUser)) < MaxMoods
    /\ now' = now + 1
    /\ last' = Call("tick", "", "", "")
    /\ UNCHANGED <<badges, ledger, txns, userBadges, notifications, checkins,
                   posts, circleMembers, circles, pomodoros, events,
                   eventAttendees, call>>

\* the student stays away for the 30 days of the query window
MonthPasses ==
    /\ now < 30
    /\ CheckedInToday(DB, StressUser, now)
    /\ Count(checkins, RowsOf(checkins, StressUser)) <= MaxOldCheckins
    /\ now' = now + 30
    /\ last' = Call("tick", "", "", "")
    /\ UNCHANGED <<badges, ledger, txns, userBadges, notifications, checkins,
                   posts, circleMembers, circles, pomodoros, events,
                   eventAttendees, call>>

\* whether a row dated exactly 30 days back is inside the query: either,
\* when there is such a row
EdgeChoices(u) ==
    IF \E r \in RowsOf(checkins, u) : r.day = now - 30
    THEN BOOLEAN
    ELSE {FALSE}

\* GET /wellness/stress-analysis
AnalyzeStress(u) ==
    \E edge \in EdgeChoices(u) :
      \E scores \in {mood_scores(recent_checkins(DB, u, now, edge))} :
        \E d \in {analyze_stress_patterns(DB, u, scores)} :
          /\ \/ CopiesIn(AlertNotification(u), notifications) < MaxAlerts
             \/ d.notifications = notifications
          /\ Commit(d)
          /\ last' = Call("analyze_stress_patterns", u, edge,
                          stress_analysis(scores))
          /\ UNCHANGED <<now, call>>

StressNext ==
    \/ StressTick
    \/ MonthPasses
    \/ \E score \in MoodInputs : StressCheckin(StressUser, score)
    \/ AnalyzeStress(StressUser)

StressSpec == Init /\ [][StressNext]_vars

----------------------------------------------------------------------------
(* The reports, GET /gamification/stats and GET /gamification/leaderboard,  *)
(* among awards.                                                            *)

\* GET /gamification/stats
GetUserStats(u) ==
    /\ Commit(get_user_stats(DB, u, now))
    /\ last' = Call("get_user_stats", u, "", get_user_stats_ret(DB, u, now))
    /\ UNCHANGED <<now, call>>

\* query parameters of the leaderboard request
LimitInputs == {1, 10}
TimeframeInputs == {"all_time", "week", "month"}

\* GET /gamification/leaderboard
GetLeaderboard(limit, timeframe) ==
    /\ \E lb \in get_leaderboard(DB, limit, timeframe, now) :
          last' = Call("get_leaderboard", "", timeframe, lb)
    /\ UNCHANGED <<now, badges, ledger, txns, userBadges, notifications,
                   checkins, posts, circleMembers, circles, pomodoros, events,
                   eventAttendees, call>>

ReportAward(u, a) ==
    /\ BagCardinality(txns) < MaxReportTxns
    /\ AwardPoints(u, a)

ReportNext ==
    \/ Tick
    \/ \E u \in Users, a \in AwardInputs : ReportAward(u, a)
    \/ \E u \in Users : GetUserStats(u)
    \/ \E limit \in LimitInputs, timeframe \in TimeframeInputs :
          GetLeaderboard(limit, timeframe)

ReportSpec == Init /\ [][ReportNext]_vars

----------------------------------------------------------------------------
(* Concurrent award_points calls.  Sync handlers run in a thread pool, each *)
(* request with its own session (get_db); a session keeps the rows it       *)
(* loaded.  `call` holds the position and the loaded ledger row of each     *)
(* request.  Each query-and-commit of a call is one step.                   *)

Procs == {1, 2}

RaceActions == {"help_peer", "join_circle"}

RaceInit ==
    /\ now = 0
    /\ badges \in {BADGES, BADGES \cup {EmptyCriteriaBadge, NullCriteriaBadge}}
    /\ ledger = [u \in Users |-> NoLedger]
    /\ txns = EmptyBag
    /\ userBadges = EmptyBag
    /\ notifications = EmptyBag
    /\ checkins = EmptyBag
    /\ posts = EmptyBag
    /\ circleMembers = EmptyBag
    /\ circles = << >>
    /\ pomodoros = << >>
    /\ events = << >>
    /\ eventAttendees = EmptyBag
    /\ last = Call("init", "", "", "")
    /\ call = [p \in Procs |-> Idle]

\* a request enters award_points
RaceBegin(p, u, a) ==
    /\ call[p].pc = "idle"
    /\ BagCardinality(txns)
          + Cardinality({q \in Procs : call[q].pc # "idle"}) < MaxRaceTxns
    /\ call' = [call EXCEPT ![p] =
                   [pc |-> "get_or_create", user |-> u, action |-> a,
                    loaded |-> NoLedger]]
    /\ UNCHANGED <<now, badges, ledger, txns, userBadges, notifications,
                   checkins, posts, circleMembers, circles, pomodoros, events,
                   eventAttendees, last>>

\* line 129: the session loads the ledger row, creating it if there is none
RaceLoad(p) ==
    /\ call[p].pc = "get_or_create"
    /\ Commit(get_or_create_user_points(DB, call[p].user, now))
    /\ call' = [call EXCEPT ![p].pc = "record",
                            ![p].loaded = ledger'[call[p].user]]
    /\ UNCHANGED <<now, last>>

\* lines 131-148: the transaction row and the ledger update are committed
RaceFlush(p) ==
    /\ call[p].pc = "record"
    /\ Commit(flush_award(DB, call[p].user, call[p].action, now,
                          call[p].loaded))
    /\ call' = [call EXCEPT ![p].pc = "badges"]
    /\ UNCHANGED <<now, last>>

\* lines 149-154: refresh, badge evaluation, return
RaceBadges(p) ==
    /\ call[p].pc = "badges"
    /\ Commit(check_and_award_badges(DB, call[p].user, now))
    /\ call' = [call EXCEPT ![p] = Idle]
    /\ last' = Call("award_points", call[p].user, call[p].action, p)
    /\ UNCHANGED now

RaceNext ==
    \/ \E p \in Procs, u \in Users, a \in RaceActions : RaceBegin(p, u, a)
    \/ \E p \in Procs : RaceLoad(p)
    \/ \E p \in Procs : RaceFlush(p)
    \/ \E p \in Procs : RaceBadges(p)

RaceSpec == RaceInit /\ [][RaceNext]_vars

----------------------------------------------------------------------------
(* A week of daily check-ins by one student, who may also post. *)

WeekUser == "u1"

\* midnight passes once the student has checked in
WeekTick ==
    /\ now < MaxWeekDay
    /\ CheckedInToday(DB, WeekUser, now)
    /\ now' = now + 1
    /\ last' = Call("tick", "", "", "")
    /\ UNCHANGED <<badges, ledger, txns, userBadges, notifications, checkins,
                   posts, circleMembers, circles, pomodoros, events,
                   eventAttendees, call>>

WeekNext ==
    \/ WeekTick
    \/ \E score \in CheckinMoods : CreateCheckin(WeekUser, score)
    \/ CreatePost(WeekUser)

WeekSpec == Init /\ [][WeekNext]_vars

----------------------------------------------------------------------------
(* Pomodoro sessions, through POST /pomodoro/start and                     *)
(* POST /pomodoro/{session_id}/complete                                     *)

StartPomodoro(u) ==
    /\ Len(pomodoros) < MaxPomodoros
    /\ Commit(start_pomodoro_session(DB, u))
    /\ last' = Call("start_pomodoro_session", u, "", Len(pomodoros) + 1)
    /\ UNCHANGED <<now, call>>

\* session ids a request can carry: those of the rows and one of no row
SessionInputs == 1..(MaxPomodoros + 1)

CompletePomodoro(u, session_id) ==
    /\ BagCardinality(txns) < MaxPomodoroTxns
    /\ Commit(complete_pomodoro_session(DB, u, session_id, now))
    /\ last' = Call("complete_pomodoro_session", u, session_id,
                    IF own_session(DB, u, session_id) THEN "200" ELSE "404")
    /\ UNCHANGED <<now, call>>

PomodoroNext ==
    \/ \E u \in Users : StartPomodoro(u)
    \/ \E u \in Users, session_id \in SessionInputs :
          CompletePomodoro(u, session_id)

PomodoroSpec == Init /\ [][PomodoroNext]_vars

----------------------------------------------------------------------------
(* Events, through POST /events and POST /events/{event_id}/rsvp *)

\* max_attendees of a create request: absent (None), 0 or 1
MaxAttendeesInputs == {<<FALSE, 0>>, <<TRUE, 0>>, <<TRUE, 1>>}

CreateEvent(u, m) ==
    /\ Len(events) < MaxEvents
    /\ Commit(create_event(DB, m[1], m[2]))
    /\ last' = Call("create_event", u, m, Len(events) + 1)
    /\ UNCHANGED <<now, call>>

\* event ids a request can carry: those of the rows and one of no row
EventInputs == 1..(MaxEvents + 1)

RsvpEvent(u, event_id) ==
    /\ Commit(rsvp_event(DB, u, event_id))
    /\ last' = Call("rsvp_event", u, event_id, rsvp_event_ret(DB, u, event_id))
    /\ UNCHANGED <<now, call>>

EventNext ==
    \/ \E u \in Users, m \in MaxAttendeesInputs : CreateEvent(u, m)
    \/ \E u \in Users, event_id \in EventInputs : RsvpEvent(u, event_id)

EventSpec == Init /\ [][EventNext]_vars

----------------------------------------------------------------------------
(* Two concurrent POST /study-circles/match requests.  Each request has its
   own session (get_db) on the shared SQLite file; the queries of a request
   read the committed rows at the moment they run and nothing is locked
   between a query and the commit that follows it.  A step is one query or
   one commit; the award after a join is taken as one step. *)

\* the state after init_db with two requests about to arrive
MatchRaceInit ==
    /\ now = 0
    /\ badges \in {BADGES, BADGES \cup {EmptyCriteriaBadge, NullCriteriaBadge}}
    /\ ledger = [u \in Users |-> NoLedger]
    /\ txns = EmptyBag
    /\ userBadges = EmptyBag
    /\ notifications = EmptyBag
    /\ checkins = EmptyBag
    /\ posts = EmptyBag
    /\ circles = <<StudyCircle("c1"), StudyCircle("c1")>>
    /\ \E n1 \in {3, 4}, n2 \in {3, 4} :
          circleMembers = SetToBag(SeedMembers(1, n1) \cup SeedMembers(2, n2))
    /\ pomodoros = << >>
    /\ events = << >>
    /\ eventAttendees = EmptyBag
    /\ last = Call("init", "", "", "")
    /\ call = [p \in Procs |-> Idle]

\* the circle the loop looks at: the first of the rows still to visit
Current(p) == CHOOSE i \in call[p].scan : \A j \in call[p].scan : i <= j

\* the loop moves on to the next circle, or falls through to the tail
NextCircle(p) ==
    call' = [call EXCEPT
               ![p].scan = @ \ {Current(p)},
               ![p].pc = IF call[p].scan = {Current(p)}
                         THEN "course" ELSE "member_count"]

\* a request enters match_to_circle
MatchBegin(p, u, course) ==
    /\ call[p].pc = "idle"
    /\ BagCardinality(circleMembers)
          + Cardinality({q \in Procs : call[q].pc # "idle"}) < MaxMatchMembers
    /\ call' = [call EXCEPT ![p] =
                   [pc |-> "circles", user |-> u, course |-> course,
                    scan |-> {}, circle |-> 0]]
    /\ UNCHANGED <<now, badges, ledger, txns, userBadges, notifications,
                   checkins, posts, circleMembers, circles, pomodoros, events,
                   eventAttendees, last>>

\* lines 173-176: the query of the active circles of the course
MatchCircles(p) ==
    /\ call[p].pc = "circles"
    /\ call' = [call EXCEPT
                  ![p].scan = ActiveCircles(DB, call[p].course),
                  ![p].pc = IF ActiveCircles(DB, call[p].course) = {}
                            THEN "course" ELSE "member_count"]
    /\ UNCHANGED <<now, badges, ledger, txns, userBadges, notifications,
                   checkins, posts, circleMembers, circles, pomodoros, events,
                   eventAttendees, last>>

\* lines 180-184: the count query of the circle and the test on it
MatchMemberCount(p) ==
    /\ call[p].pc = "member_count"
    /\ IF has_room(DB, Current(p))
       THEN call' = [call EXCEPT ![p].pc = "existing"]
       ELSE NextCircle(p)
    /\ UNCHANGED <<now, badges, ledger, txns, userBadges, notifications,
                   checkins, posts, circleMembers, circles, pomodoros, events,
                   eventAttendees, last>>

\* lines 186-191: the query for a row of the caller in the circle
MatchExisting(p) ==
    /\ call[p].pc = "existing"
    /\ IF ~existing(DB, Current(p), call[p].user)
       THEN call' = [call EXCEPT ![p].pc = "add_member",
                                 ![p].circle = Current(p)]
       ELSE NextCircle(p)
    /\ UNCHANGED <<now, badges, ledger, txns, userBadges, notifications,
                   checkins, posts, circleMembers, circles, pomodoros, events,
                   eventAttendees, last>>

\* lines 193-198: the membership row is added and committed
MatchAddMember(p) ==
    /\ call[p].pc = "add_member"
    /\ Commit([DB EXCEPT !.circleMembers =
                  Insert(@, CircleMember(call[p].circle, call[p].user,
                                         "member"))])
    /\ call' = [call EXCEPT ![p].pc = "award_points"]
    /\ UNCHANGED <<now, last>>

\* lines 200-205: the award, and the response
MatchAward(p) ==
    /\ call[p].pc = "award_points"
    /\ Commit(award_points(DB, call[p].user, "join_circle", now))
    /\ call' = [call EXCEPT ![p] = Idle]
    /\ last' = Call("match_to_circle", call[p].user, call[p].course,
                    call[p].circle)
    /\ UNCHANGED now

\* lines 208-210: the course query after the loop found no circle
MatchCourse(p) ==
    /\ call[p].pc = "course"
    /\ IF call[p].course \notin Courses
       THEN /\ call' = [call EXCEPT ![p] = Idle]
            /\ last' = Call("match_to_circle", call[p].user, call[p].course,
                            404)
       ELSE /\ call' = [call EXCEPT ![p].pc = "new_circle"]
            /\ last' = last
    /\ UNCHANGED <<now, badges, ledger, txns, userBadges, notifications,
                   checkins, posts, circleMembers, circles, pomodoros, events,
                   eventAttendees>>

\* lines 212-218: the new circle is added and committed
MatchNewCircle(p) ==
    /\ call[p].pc = "new_circle"
    /\ Commit([DB EXCEPT !.circles = Append(@, StudyCircle(call[p].course))])
    /\ call' = [call EXCEPT ![p].pc = "leader",
                            ![p].circle = Len(circles) + 1]
    /\ UNCHANGED <<now, last>>

\* lines 220-230: the caller is added as the leader, and the response
MatchLeader(p) ==
    /\ call[p].pc = "leader"
    /\ Commit([DB EXCEPT !.circleMembers =
                  Insert(@, CircleMember(call[p].circle, call[p].user,
                                         "leader"))])
    /\ call' = [call EXCEPT ![p] = Idle]
    /\ last' = Call("match_to_circle", call[p].user, call[p].course,
                    call[p].circle)
    /\ UNCHANGED now

MatchRaceNext ==
    \E p \in Procs :
        \/ \E u \in Users, course \in CourseInputs : MatchBegin(p, u, course)
        \/ MatchCircles(p)
        \/ MatchMemberCount(p)
        \/ MatchExisting(p)
        \/ MatchAddMember(p)
        \/ MatchAward(p)
        \/ MatchCourse(p)
        \/ MatchNewCircle(p)
        \/ MatchLeader(p)

MatchRaceSpec == MatchRaceInit /\ [][MatchRaceNext]_vars

----------------------------------------------------------------------------
(* award_points commit by commit.  The call commits up to three times:  *)
(* in get_or_create_user_points (line 116), at line 148 and in            *)
(* check_and_award_badges (line 246).  A call interrupted between two     *)
(* commits leaves what was committed and loses the rest.                  *)

Running(op, u, a, pc) ==
    [pc |-> pc, op |-> op, user |-> u, action |-> a, before |-> DB]

Settled == call.pc \in {"idle", "interrupted"}

\* award_points is entered, called directly
AwardBegin(u, a) ==
    /\ Settled
    /\ BagCardinality(txns) < MaxStepTxns
    /\ IF a \notin DOMAIN POINTS_CONFIG
       THEN /\ call' = Idle
            /\ last' = Call("award_points", u, a, "None")
       ELSE /\ call' = Running("award_points", u, a, "get_or_create")
            /\ last' = Call("award_points", u, a, "running")
    /\ UNCHANGED <<now, badges, ledger, txns, userBadges, notifications,
                   checkins, posts, circleMembers, circles, pomodoros, events,
                   eventAttendees>>

\* create_checkin commits the check-in row (line 281) and enters award_points
CheckinBegin(u, score) ==
    /\ Settled
    /\ BagCardinality(txns) < MaxStepTxns
    /\ ~CheckedInToday(DB, u, now)
    /\ checkins' = Insert(checkins, WellnessCheckIn(u, now, score))
    /\ call' = [Running("create_checkin", u, "daily_checkin", "get_or_create")
                   EXCEPT !.before.checkins = checkins']
    /\ last' = Call("create_checkin", u, "", "running")
    /\ UNCHANGED <<now, badges, ledger, txns, userBadges, notifications,
                   posts, circleMembers, circles, pomodoros, events,
                   eventAttendees>>

\* line 129: the ledger record is created and committed if there is none
GetOrCreate ==
    /\ call.pc = "get_or_create"
    /\ Commit(get_or_create_user_points(DB, call.user, now))
    /\ call' = [call EXCEPT !.pc = "record"]
    /\ UNCHANGED <<now, last>>

\* lines 131-149: the transaction row and the ledger update, one commit
RecordAward ==
    /\ call.pc = "record"
    /\ Commit(record_award(DB, call.user, call.action, now))
    /\ call' = [call EXCEPT !.pc = "badges"]
    /\ UNCHANGED <<now, last>>

\* line 152: the badge grants and their notifications, one commit; then
\* award_points returns
GrantBadges ==
    /\ call.pc = "badges"
    /\ Commit(check_and_award_badges(DB, call.user, now))
    /\ IF call.op = "create_checkin"
       THEN /\ call' = [call EXCEPT !.pc = "streak"]
            /\ UNCHANGED last
       ELSE /\ call' = Idle
            /\ last' = Call("award_points", call.user, call.action, "user_points")
    /\ UNCHANGED now

\* line 287 of main.py: update_streak, then create_checkin returns
StreakStep ==
    /\ call.pc = "streak"
    /\ Commit(update_streak(DB, call.user, now))
    /\ call' = Idle
    /\ last' = Call("create_checkin", call.user, "", "200")
    /\ UNCHANGED now

\* the call is interrupted (the process dies, the connection drops): the
\* session's uncommitted work is lost, the committed work stays
Interrupt ==
    /\ ~Settled
    /\ call' = [call EXCEPT !.pc = "interrupted"]
    /\ last' = Call(call.op, call.user, call.action, "interrupted")
    /\ UNCHANGED <<now, badges, ledger, txns, userBadges, notifications,
                   checkins, posts, circleMembers, circles, pomodoros, events,
                   eventAttendees>>

StepNext ==
    \/ Settled /\ now < MaxStepDay /\ now' = now + 1
         /\ last' = Call("tick", "", "", "")
         /\ UNCHANGED <<badges, ledger, txns, userBadges, notifications,
                        checkins, posts, circleMembers, circles, pomodoros, events,
                   eventAttendees, call>>
    \/ \E u \in Users, a \in AwardInputs : AwardBegin(u, a)
    \/ \E u \in Users, score \in CheckinMoods : CheckinBegin(u, score)
    \/ GetOrCreate
    \/ RecordAward
    \/ GrantBadges
    \/ StreakStep
    \/ Interrupt

StepSpec == Init /\ [][StepNext]_vars

----------------------------------------------------------------------------
(* Points ledger *)

\* C1: after any sequence of award_points and update_streak calls, each
\* user's total_points_earned equals the sum of the points of all the
\* PointsTransaction rows recorded for that user (zero of both for a user
\* who has no ledger record yet).
C1_TotalIsSumOfTransactions ==
    \A u \in Users : ledger[u].total_points_earned = TxnSum(txns, u)

\* a user whose total is made of a direct award and a streak bonus
C1_Witness ==
    \E u \in Users :
        /\ ledger[u].exists
        /\ \E r \in RowsOf(txns, u) : r.action_type = "wellness_streak_bonus"
        /\ \E r \in RowsOf(txns, u) : r.action_type = "help_peer"
        /\ \E v \in Users : TxnSum(txns, v) # TxnSum(txns, u)

\* C2: after any sequence of point awards, streak bonuses included, each
\* ledger has level = floor(total_points_earned / 100) + 1.
C2_LevelFollowsTotal ==
    \A u \in Users :
        ledger[u].exists =>
            ledger[u].level = (ledger[u].total_points_earned \div 100) + 1

\* C5: award_points with an action type that is not a key of POINTS_CONFIG
\* returns None and changes neither the ledger table (no record is created)
\* nor the transactions, the badge grants or the notifications.
C5_UnknownActionIsNoOp ==
    [][ (last'.op = "award_points" /\ last'.arg \notin DOMAIN POINTS_CONFIG)
            => /\ last'.ret = "None"
               /\ UNCHANGED <<ledger, txns, userBadges, notifications>> ]_vars

\* an unknown action type was awarded to a user who still has no ledger record
C5_Witness ==
    /\ last.op = "award_points"
    /\ last.arg \notin DOMAIN POINTS_CONFIG
    /\ last.ret = "None"
    /\ ~ledger[last.user].exists

\* C6: every award_points call with a recognized action type adds exactly one
\* PointsTransaction, whose points are POINTS_CONFIG[action_type], and raises
\* the user's points and total_points_earned by exactly that value, also when
\* the same award was already made (no deduplication).
C6_EveryAwardIsRecorded ==
    [][ (last'.op = "award_points" /\ last'.arg \in DOMAIN POINTS_CONFIG)
            => LET u == last'.user
                   v == POINTS_CONFIG[last'.arg]
                   row == PointsTransaction(u, v, last'.arg)
               IN  /\ BagCardinality(txns') = BagCardinality(txns) + 1
                   /\ CopiesIn(row, txns') = CopiesIn(row, txns) + 1
                   /\ ledger'[u].points = ledger[u].points + v
                   /\ ledger'[u].total_points_earned
                          = ledger[u].total_points_earned + v ]_vars

\* the same award made twice and recorded twice
C6_Witness ==
    /\ last.op = "award_points"
    /\ last.arg = "help_peer"
    /\ CopiesIn(PointsTransaction(last.user, 25, "help_peer"), txns) = 2
    /\ ledger[last.user].points = 50

----------------------------------------------------------------------------
(* Streak tracker, through POST /checkin *)

NumCheckins(u) == Count(checkins, RowsOf(checkins, u))

\* the check-in rows of the user dated that day
CheckinsOn(table, u, day) ==
    Count(table, {r \in RowsOf(table, u) : r.day = day})

Holds(u, name) == CopiesIn([user_id |-> u, badge |-> name], userBadges)
BonusRows(table, u) ==
    Count(table, {r \in RowsOf(table, u) : r.action_type = "wellness_streak_bonus"})

\* C3: two successful check-ins by the same user on consecutive UTC dates D
\* and D+1 leave streak_days = 1 after the first and streak_days = 2 after
\* the second, and the second records one wellness_streak_bonus transaction
\* of 5 x 2 = 10 points.
C3_ConsecutiveCheckinsBuildStreak ==
    [][ \A u \in Users :
          (last'.op = "create_checkin" /\ last'.user = u /\ last'.ret = "200")
          => /\ NumCheckins(u) = 0 => ledger'[u].streak_days = 1
             /\ ( /\ NumCheckins(u) = 1
                  /\ CheckinsOn(checkins, u, now - 1) = 1 )
                => /\ ledger'[u].streak_days = 2
                   /\ BonusRows(txns', u) = BonusRows(txns, u) + 1
                   /\ CopiesIn(PointsTransaction(u, 10, "wellness_streak_bonus"), txns')
                        = CopiesIn(PointsTransaction(u, 10, "wellness_streak_bonus"), txns) + 1
      ]_vars

\* C4: a successful check-in made when the user's previous activity was two
\* or more UTC days earlier leaves streak_days = 1 and records no
\* wellness_streak_bonus transaction.
C4_GapResetsStreak ==
    [][ \A u \in Users :
          ( /\ last'.op = "create_checkin" /\ last'.user = u /\ last'.ret = "200"
            /\ ledger[u].exists
            /\ now - ledger[u].last_activity >= 2 )
          => /\ ledger'[u].streak_days = 1
             /\ BonusRows(txns', u) = BonusRows(txns, u)
      ]_vars

----------------------------------------------------------------------------
(* Badge evaluator *)

\* C8: no (user, badge) pair ever has two UserBadge rows, and a user with at
\* least one check-in has exactly one row for the {checkins: 1} badge
\* "First Steps", however many check-ins and point awards follow.
C8_BadgeGrantedOnce ==
    \A u \in Users :
        /\ \A b \in badges : Holds(u, b.name) <= 1
        /\ NumCheckins(u) >= 1 => Holds(u, "First Steps") = 1

\* a user with two check-ins and a later point award, still with one row
C8_Witness ==
    \E u \in Users :
        /\ NumCheckins(u) = 2
        /\ last.op = "create_post" /\ last.user = u
        /\ Holds(u, "First Steps") = 1

\* what the criteria mapping of a badge asks of a user: every threshold it
\* names, "peer_helps" included
MeetsEveryThreshold(db, u, c, today) ==
    /\ criteria_pass(db, u, c, today)
    /\ HasKey(c, "peer_helps") => PeerHelps(db, u) >= Threshold(c, "peer_helps")

\* C9: a badge is granted to a user only if the user satisfies every
\* threshold named in the badge's criteria; in particular a user with no
\* recorded peer helps never holds "Helping Hand" ({peer_helps: 10}).
C9_GrantOnlyWhenCriteriaMet ==
    [][ \A u \in Users :
          /\ \A b \in badges :
                Holds(u, b.name)' > Holds(u, b.name)
                    => MeetsEveryThreshold(DB', u, b.criteria, now')
          /\ PeerHelps(DB', u) = 0 => Holds(u, "Helping Hand")' = 0
      ]_vars

\* C10: a badge whose criteria mapping is empty or missing is never granted
\* to any user.
C10_EmptyCriteriaNeverGranted ==
    \A u \in Users : \A b \in badges :
        (~b.has_criteria \/ b.criteria = {}) => Holds(u, b.name) = 0

\* the badges table holds an empty and a NULL mapping, and the evaluator has
\* run for a user with check-ins and posts and granted another badge
C10_Witness ==
    /\ EmptyCriteriaBadge \in badges
    /\ NullCriteriaBadge \in badges
    /\ \E u \in Users :
          /\ NumCheckins(u) >= 1
          /\ Count(posts, {r \in DOMAIN posts : r.author_id = u}) >= 1
          /\ Holds(u, "First Steps") = 1
          /\ Holds(u, "Empty Criteria") = 0
          /\ Holds(u, "Null Criteria") = 0

----------------------------------------------------------------------------
(* Atomicity of award_points *)

\* C7: if award_points is interrupted at any step, then either the
\* transaction row, the ledger update and every badge grant (with its
\* notification) that the award produces are all persisted, or none of them
\* is.
C7_AwardIsAllOrNothing ==
    call.pc = "interrupted" =>
        LET u == call.user
            before == call.before
            full == award_points(before, u, call.action, now)
            row == PointsTransaction(u, POINTS_CONFIG[call.action], call.action)
            txnIn == CopiesIn(row, txns) > CopiesIn(row, before.txns)
            ledgerIn == ledger[u].total_points_earned
                            > before.ledger[u].total_points_earned
            grantsIn == /\ userBadges = full.userBadges
                        /\ notifications = full.notifications
            grantsOut == /\ userBadges = before.userBadges
                         /\ notifications = before.notifications
        IN  \/ txnIn /\ ledgerIn /\ grantsIn
            \/ ~txnIn /\ ~ledgerIn /\ grantsOut

----------------------------------------------------------------------------
(* Badges are never revoked *)

\* C11: the badge rows of a user never shrink: a UserBadge row that exists
\* exists in every later state, also after the data it was granted for has
\* changed (streak_days reset to 1 by update_streak).
C11_BadgesNeverRevoked ==
    [][ \A r \in DOMAIN userBadges :
            /\ r \in DOMAIN userBadges'
            /\ userBadges'[r] >= userBadges[r] ]_vars

\* a user who earned "Wellness Warrior" with a streak of seven, whose streak
\* was then reset to 1, and for whom the evaluator has run again
C11_Witness ==
    \E u \in Users :
        /\ last.op = "award_points" /\ last.user = u
        /\ ledger[u].streak_days = 1
        /\ CopiesIn([user_id |-> u, badge |-> "Wellness Warrior"], userBadges) = 1

----------------------------------------------------------------------------
(* Study circle matching *)

\* the number of membership rows of the circle
Members(circle) ==
    Count(circleMembers, {r \in DOMAIN circleMembers : r.circle_id = circle})

\* the number of rows the student has in the circle
Memberships(circle, u) ==
    Count(circleMembers,
          {r \in DOMAIN circleMembers :
              r.circle_id = circle /\ r.student_id = u})

\* an active circle of the course with a free place that the student is
\* not a member of
Qualifies(circle, u, course) ==
    /\ circles[circle].course_id = course
    /\ circles[circle].status = "active"
    /\ Members(circle) < circles[circle].max_members
    /\ Memberships(circle, u) = 0

\* the step is a call of match_to_circle by u for the course
Matched(u, course) ==
    /\ last'.op = "match_to_circle"
    /\ last'.user = u
    /\ last'.arg = course

\* C12: when some active circle of the requested course has a free place
\* and does not contain the caller, match_to_circle adds the caller to the
\* first such circle in scan order with role "member", creates no circle,
\* and records exactly one join_circle transaction of 20 points.
C12_JoinsFirstCircleWithRoom ==
    [][ \A u \in Users, course \in CourseInputs :
          \A i \in DOMAIN circles :
            ( /\ Matched(u, course)
              /\ Qualifies(i, u, course)
              /\ \A j \in 1..(i - 1) : ~Qualifies(j, u, course) )
            => /\ circles' = circles
               /\ circleMembers' =
                     Insert(circleMembers,
                            [circle_id |-> i, student_id |-> u,
                             role |-> "member"])
               /\ txns' = Insert(txns, PointsTransaction(u, 20, "join_circle"))
               /\ last'.ret = i ]_vars

\* a caller has joined a circle as member while a later circle of the same
\* course also had a place for them
C12_Witness ==
    /\ last.op = "match_to_circle"
    /\ last.ret \in DOMAIN circles
    /\ BagIn([circle_id |-> last.ret, student_id |-> last.user,
              role |-> "member"], circleMembers)
    /\ \E j \in DOMAIN circles :
          j > last.ret /\ Qualifies(j, last.user, last.arg)

\* C13: when no active circle of an existing course qualifies,
\* match_to_circle creates exactly one circle, whose only member is the
\* caller with role "leader", and leaves the caller's ledger and the
\* transaction log as they were.
C13_NewCircleWithoutAward ==
    [][ \A u \in Users, course \in Courses :
          ( /\ Matched(u, course)
            /\ \A i \in DOMAIN circles : ~Qualifies(i, u, course) )
          => /\ Len(circles') = Len(circles) + 1
             /\ SubSeq(circles', 1, Len(circles)) = circles
             /\ circles'[Len(circles')].course_id = course
             /\ circleMembers' =
                   Insert(circleMembers,
                          [circle_id |-> Len(circles'), student_id |-> u,
                           role |-> "leader"])
             /\ Count(circleMembers',
                      {r \in DOMAIN circleMembers' :
                          r.circle_id = Len(circles')}) = 1
             /\ ledger'[u] = ledger[u]
             /\ txns' = txns ]_vars

\* the last call created a circle for a course whose seeded circles are full
\* or already hold the caller
C13_Witness ==
    /\ last.op = "match_to_circle"
    /\ last.ret = Len(circles)
    /\ Len(circles) > 2
    /\ last.arg = "c1"
    /\ Members(last.ret) = 1
    /\ Memberships(last.ret, last.user) = 1
    /\ ledger[last.user] = NoLedger

\* C14: in every state reached by match_to_circle calls from a state within
\* capacity, no circle has more membership rows than its max_members.
C14_WithinCapacity ==
    \A i \in DOMAIN circles : Members(i) <= circles[i].max_members

\* a call for the course of a full circle, by a student who is not in it,
\* was sent to another circle
C14_Witness ==
    \E i \in DOMAIN circles :
        /\ Members(i) = circles[i].max_members
        /\ last.op = "match_to_circle"
        /\ last.arg = circles[i].course_id
        /\ Memberships(i, last.user) = 0
        /\ last.ret # i

\* C15: no student has more than one membership row in the same circle.
C15_OneRowPerCircle ==
    \A i \in DOMAIN circles :
        \A r \in DOMAIN circleMembers : Memberships(i, r.student_id) <= 1

\* a student who is in a circle that still has a free place asked again for
\* the same course and was sent to a later circle
C15_Witness ==
    \E i \in DOMAIN circles :
        /\ Memberships(i, last.user) = 1
        /\ Members(i) < circles[i].max_members
        /\ last.op = "match_to_circle"
        /\ last.arg = circles[i].course_id
        /\ last.ret \in DOMAIN circles
        /\ last.ret > i

----------------------------------------------------------------------------
(* One check-in a day *)

\* C16: through create_checkin a user has at most one check-in row per UTC
\* date, and a check-in request made when the user has a row of the current
\* date is rejected with an error and leaves the check-ins, the ledger, the
\* transaction log and the badge rows as they were.
C16_OneCheckinPerDay ==
    [][ /\ \A u \in Users, day \in 0..now' : CheckinsOn(checkins', u, day) <= 1
        /\ \A u \in Users :
             ( /\ last'.op = "create_checkin"
               /\ last'.user = u
               /\ CheckinsOn(checkins, u, now) >= 1 )
             => /\ last'.ret = "400 Already checked in today"
                /\ UNCHANGED <<checkins, ledger, txns, userBadges>>
      ]_vars

\* a request was rejected on a day the user had checked in, on a later day
\* than an earlier check-in of theirs
C16_Witness ==
    /\ last.op = "create_checkin"
    /\ last.ret = "400 Already checked in today"
    /\ CheckinsOn(checkins, last.user, now) = 1
    /\ \E day \in 0..(now - 1) : CheckinsOn(checkins, last.user, day) = 1

----------------------------------------------------------------------------
(* Stress analysis *)

\* the step is a stress analysis requested by u
Analyzed(u) ==
    /\ last'.op = "analyze_stress_patterns"
    /\ last'.user = u

\* the scores of u's check-ins of the trailing 30 days, oldest first; edge
\* tells whether a check-in dated exactly 30 days back counts
TrailingScores(u, edge) ==
    mood_scores({r \in RowsOf(checkins, u) :
                    r.day > now - 30 \/ (edge /\ r.day = now - 30)})

\* C17: with fewer than 7 check-ins in the trailing 30 days the analysis
\* returns trend "insufficient_data" and alert false, whatever the mood
\* scores are, and adds no notification.
C17_InsufficientData ==
    [][ \A u \in Users :
          (Analyzed(u) /\ Len(TrailingScores(u, last'.arg)) < 7)
          => /\ last'.ret.trend = "insufficient_data"
             /\ last'.ret.alert = FALSE
             /\ notifications' = notifications ]_vars

\* an analysis over six check-ins in the window, all of them low, of a
\* student who has seven check-ins in all
C17_Witness ==
    /\ last.op = "analyze_stress_patterns"
    /\ last.ret.trend = "insufficient_data"
    /\ NumCheckins(last.user) = 7
    /\ Len(TrailingScores(last.user, last.arg)) = 6
    /\ \A i \in 1..6 : TrailingScores(last.user, last.arg)[i] <= 2

\* sum of the most recent 7 scores
RecentSum(scores) == SeqSum(SubSeq(scores, Len(scores) - 6, Len(scores)))

\* the scores the recent 7 are compared with: the 7 before them when there
\* are 14 scores or more, otherwise all of the scores
OlderScores(scores) ==
    IF Len(scores) >= 14
    THEN SubSeq(scores, Len(scores) - 13, Len(scores) - 7)
    ELSE scores

\* mean(recent 7) - mean(older), multiplied by 14 * Len(older)
MeanGap14(scores) ==
    2 * Len(OlderScores(scores)) * RecentSum(scores)
        - 14 * SeqSum(OlderScores(scores))

\* C18: with 7 check-ins or more the trend is "declining" exactly when the
\* mean of the most recent 7 scores is more than 0.5 below the older mean
\* (of the 7 scores before them when 14 exist, else of all scores),
\* "improving" exactly when it is more than 0.5 above, "stable" otherwise.
C18_TrendByHalfPoint ==
    [][ \A u \in Users :
          Analyzed(u) =>
            \A scores \in {TrailingScores(u, last'.arg)} :
              Len(scores) >= 7 =>
                \A gap \in {MeanGap14(scores)},
                   half \in {7 * Len(OlderScores(scores))} :
                    /\ last'.ret.trend = "declining" <=> gap < -half
                    /\ last'.ret.trend = "improving" <=> gap > half
                    /\ last'.ret.trend = "stable"
                          <=> (gap >= -half /\ gap <= half)
      ]_vars

\* fourteen check-ins, the recent 7 with mean 2 and the prior 7 with mean 5,
\* analysed as declining
C18_Witness ==
    /\ last.op = "analyze_stress_patterns"
    /\ last.ret.trend = "declining"
    /\ Len(TrailingScores(last.user, last.arg)) = 14
    /\ RecentSum(TrailingScores(last.user, last.arg)) = 14
    /\ SeqSum(OlderScores(TrailingScores(last.user, last.arg))) = 35

\* how many of the most recent 7 scores are <= 2
LowRecent(scores) ==
    Cardinality({i \in (Len(scores) - 6)..Len(scores) : scores[i] <= 2})

\* C19: with 7 check-ins or more, alert is true exactly when (a) the trend
\* is "declining" and at least 3 of the most recent 7 scores are <= 2, or
\* (b) at least 4 of them are <= 2; the call adds a notification for the
\* user exactly when (a) holds, and when only (b) holds it returns the
\* softer message and adds nothing.
C19_AlertAndNotification ==
    [][ \A u \in Users :
          Analyzed(u) =>
            \A scores \in {TrailingScores(u, last'.arg)} :
              Len(scores) >= 7 =>
                \A low \in {LowRecent(scores)} :
                  LET a == last'.ret.trend = "declining" /\ low >= 3
                      b == low >= 4
                  IN  /\ last'.ret.alert = (a \/ b)
                      /\ a => notifications' =
                                 Insert(notifications,
                                        [user_id |-> u,
                                         notification_type |-> "alert",
                                         title |-> "Wellness Check-In Alert"])
                      /\ ~a => notifications' = notifications
                      /\ (~a /\ b) =>
                             last'.ret.alert_message = "several low mood days"
      ]_vars

\* an analysis that raised the softer alert for a student who has no alert
\* notification
C19_Witness ==
    /\ last.op = "analyze_stress_patterns"
    /\ last.ret.alert
    /\ last.ret.alert_message = "several low mood days"
    /\ last.ret.trend # "declining"
    /\ CopiesIn(AlertNotification(last.user), notifications) = 0

----------------------------------------------------------------------------
(* The reports are read-only *)

\* C20: get_user_stats and get_leaderboard leave the ledger, the
\* transaction log, the badge rows and the notifications as they were, so
\* that a ledger record comes into existence only through an award.
C20_ReportsAreReadOnly ==
    [][ last'.op \in {"get_user_stats", "get_leaderboard"}
        => UNCHANGED <<ledger, txns, userBadges, notifications>> ]_vars

----------------------------------------------------------------------------
(* Lost update of concurrent awards *)

\* request p commits its award in this step
Flushes(p) == call[p].pc = "record" /\ call'[p].pc = "badges"

\* C21: two concurrent award_points calls for one user can lose an
\* increment.  A call that loaded the ledger row before another call
\* committed writes its own total over the other's: when it commits, its
\* transaction row is added, yet total_points_earned is what it loaded plus
\* its own points, and is smaller than the sum of the user's transactions.
C21_LostUpdate ==
    [][ \A p \in Procs :
          ( /\ Flushes(p)
            /\ call[p].loaded.total_points_earned
                  < ledger[call[p].user].total_points_earned )
          => /\ ledger'[call[p].user].total_points_earned
                   = call[p].loaded.total_points_earned
                        + POINTS_CONFIG[call[p].action]
             /\ ledger'[call[p].user].total_points_earned
                   < TxnSum(txns', call[p].user)
             /\ BagCardinality(txns') = BagCardinality(txns) + 1 ]_vars

\* both calls have returned, both transaction rows are there, and the total
\* is short of their sum by one award
C21_Witness ==
    \E u \in Users :
        /\ \A p \in Procs : call[p].pc = "idle"
        /\ last.op = "award_points"
        /\ Count(txns, RowsOf(txns, u)) = 2
        /\ TxnSum(txns, u) = 45
        /\ ledger[u].total_points_earned \in {20, 25}

----------------------------------------------------------------------------
(* A week of check-ins and the Wellness Warrior badge *)

\* the user has a check-in on each of the 7 days ending today
CheckedInSevenDays(u) ==
    /\ now >= 6
    /\ \A day \in (now - 6)..now : CheckinsOn(checkins, u, day) >= 1

\* C22: a user with a check-in through create_checkin on each of 7
\* consecutive UTC dates holds the Wellness Warrior badge once their next
\* point award after the 7th check-in has completed (here: a post made
\* after the 7th check-in, on the same day).
C22_WarriorAfterSevenCheckins ==
    \A u \in Users :
        ( /\ CheckedInSevenDays(u)
          /\ last.op = "create_post"
          /\ last.user = u )
        => Holds(u, "Wellness Warrior") >= 1

----------------------------------------------------------------------------
(* update_streak, called directly *)

\* the step is a call of update_streak for u
Touched(u) == last'.op = "update_streak" /\ last'.user = u

\* C23: update_streak called when the ledger's last_activity is the day
\* before today increases streak_days by 1, appends exactly one
\* wellness_streak_bonus transaction of 5 x (the new streak_days) points,
\* and adds that amount to both points and total_points_earned.
C23_NextDayBonus ==
    [][ \A u \in Users :
          ( /\ Touched(u)
            /\ ledger[u].exists
            /\ ledger[u].last_activity = now - 1 )
          => /\ ledger'[u].streak_days = ledger[u].streak_days + 1
             /\ txns' = Insert(txns,
                          [user_id |-> u,
                           points |-> 5 * ledger'[u].streak_days,
                           action_type |-> "wellness_streak_bonus"])
             /\ ledger'[u].points
                   = ledger[u].points + 5 * ledger'[u].streak_days
             /\ ledger'[u].total_points_earned
                   = ledger[u].total_points_earned
                        + 5 * ledger'[u].streak_days ]_vars

\* a second day in a row: streak 2 with a bonus of 10 recorded after one of 5
C23_Witness ==
    \E u \in Users :
        /\ last.op = "update_streak"
        /\ last.user = u
        /\ ledger[u].streak_days = 2
        /\ ledger[u].last_activity = now
        /\ BagIn(PointsTransaction(u, 10, "wellness_streak_bonus"), txns)
        /\ BagIn(PointsTransaction(u, 5, "wellness_streak_bonus"), txns)

\* C24: update_streak called when the ledger's last_activity is of today
\* changes nothing but last_activity: streak_days, points,
\* total_points_earned, level and the transaction log stay as they were.
C24_SameDayTouchesNothing ==
    [][ \A u \in Users :
          ( /\ Touched(u)
            /\ ledger[u].exists
            /\ ledger[u].last_activity = now )
          => /\ ledger'[u].streak_days = ledger[u].streak_days
             /\ ledger'[u].points = ledger[u].points
             /\ ledger'[u].total_points_earned = ledger[u].total_points_earned
             /\ ledger'[u].level = ledger[u].level
             /\ ledger'[u].last_activity = now
             /\ txns' = txns ]_vars

\* update_streak right after an award of the same day, a day after the
\* ledger was created: no streak and no bonus, as before the call
C24_Witness ==
    \E u \in Users :
        /\ last.op = "update_streak"
        /\ last.user = u
        /\ now >= 1
        /\ ledger[u].last_activity = now
        /\ ledger[u].streak_days = 0
        /\ ledger[u].points > 0
        /\ BonusRows(txns, u) = 0

\* C27: in every state reached by award_points and update_streak calls each
\* ledger's points balance equals its total_points_earned.
C27_BalanceEqualsTotal ==
    \A u \in Users : ledger[u].points = ledger[u].total_points_earned

\* a ledger that received both an award and a streak bonus
C27_Witness ==
    \E u \in Users :
        /\ ledger[u].exists
        /\ BonusRows(txns, u) >= 1
        /\ Count(txns, RowsOf(txns, u)) > BonusRows(txns, u)
        /\ ledger[u].points > 5

----------------------------------------------------------------------------
(* Badge evaluation after the streak bonus *)

\* C25: the badge evaluator runs after the streak bonus too: when
\* update_streak returns after awarding a bonus, the user holds every badge
\* whose criteria they then meet.
C25_BadgesAfterStreakBonus ==
    [][ \A u \in Users :
          ( /\ Touched(u)
            /\ BonusRows(txns', u) = BonusRows(txns, u) + 1 )
          => \A b \in badges' :
                ( /\ b.has_criteria
                  /\ b.criteria # {}
                  /\ MeetsEveryThreshold(DB', u, b.criteria, now') )
                => CopiesIn(UserBadge(u, b), userBadges') >= 1 ]_vars

----------------------------------------------------------------------------
(* One award per Pomodoro session *)

\* C28: complete_pomodoro_session awards pomodoro_complete points at most
\* once per session: called on a session that is already completed it adds
\* no transaction and leaves the ledger as it was.
C28_OneAwardPerSession ==
    [][ \A u \in Users, session_id \in SessionInputs :
          ( /\ last'.op = "complete_pomodoro_session"
            /\ last'.user = u
            /\ last'.arg = session_id
            /\ session_id \in DOMAIN pomodoros
            /\ pomodoros[session_id].user_id = u
            /\ pomodoros[session_id].completed )
          => /\ txns' = txns
             /\ ledger' = ledger ]_vars

----------------------------------------------------------------------------
(* Event capacity *)

\* C30: for every event whose max_attendees is not null, 0 included,
\* attendee_count never exceeds max_attendees under rsvp_event; and an RSVP
\* rejected as duplicate or as full leaves attendee_count and the attendee
\* rows as they were.
C30_AttendeesWithinMax ==
    [][ /\ \A e \in DOMAIN events' :
              events'[e].has_max
              => events'[e].attendee_count <= events'[e].max_attendees
        /\ ( /\ last'.op = "rsvp_event"
             /\ last'.ret \in {"400 Already RSVP'd", "400 Event is full"} )
           => UNCHANGED <<events, eventAttendees>> ]_vars

----------------------------------------------------------------------------
(* Concurrent matching *)

\* C26: under any interleaving of two concurrent match_to_circle requests
\* for the same course, by two users or by one user twice, once both have
\* returned no circle has more membership rows than its max_members and no
\* user has two rows in the same circle.
C26_ConcurrentMatchKeepsCircles ==
    (\A p \in Procs : call[p].pc = "idle")
    => \A i \in DOMAIN circles :
          /\ Members(i) <= circles[i].max_members
          /\ \A u \in Users : Memberships(i, u) <= 1

----------------------------------------------------------------------------
(* Repeated stress analysis *)

\* C29: analyze_stress_patterns is idempotent: a call that follows another
\* call of the same user with no check-in in between, at the same time and
\* over the same rows, returns the same result and adds no further
\* notification.
C29_AnalysisIsIdempotent ==
    [][ ( /\ last.op = "analyze_stress_patterns"
          /\ last'.op = "analyze_stress_patterns"
          /\ last'.user = last.user
          /\ last'.arg = last.arg
          /\ checkins' = checkins
          /\ now' = now )
        => /\ last'.ret = last.ret
           /\ notifications' = notifications ]_vars

====
